---- MODULE Spec2Model ----
(***************************************************************************)
(* Model of src/app.py, the ETF compounding strategy simulator.            *)
(*                                                                         *)
(* The script runs top to bottom.  Two parts of it carry the logic:        *)
(*   - the batch analysis of etf_list, the risk-appetite filter and the    *)
(*     selection of an ETF (lines 72-138): specification SpecBatch;        *)
(*   - run_simulation, the tax calculation and the final returns           *)
(*     (lines 159-208): specification Spec.                                *)
(*                                                                         *)
(* Money and rates are Python floats in the source.  They are modelled as  *)
(* exact rationals <<numerator, denominator>> in lowest terms, one unit    *)
(* being Rs 100000 (the smallest initial capital the sidebar accepts).     *)
(***************************************************************************)
EXTENDS Integers, Sequences, FiniteSets, TLC

VARIABLES
    pc,                 \* position of the script
    \* ---- sidebar inputs (lines 49-69)
    initial, months, monthly_investment,
    risk_appetite, investor_type, equity_tax, debt_tax,
    \* ---- batch analysis (lines 96-138)
    fetched,            \* what yf.download handed analyze_etf, per instrument
    etf_idx,            \* next index of etf_list the loop analyses
    etf_data,           \* list of result dicts
    top_etfs,           \* filtered, sorted, head(5)
    selected_etf,       \* symbol chosen in the selectbox (0: none yet)
    st_errors,          \* messages shown with st.error
    \* ---- simulation (lines 154-184)
    monthly_returns,    \* percentages, one per month of price history
    i, current_value, dividends, investment_values,
    final_value, total_invested, capital_gain,
    \* ---- tax and final returns (lines 187-208)
    holding_years, tax_bucket, tax_rate,
    capital_gain_tax, dividend_tax, total_tax,
    net_value, net_gain, annualized_base, annualized_exponent

inputVars == <<initial, months, monthly_investment, risk_appetite,
               investor_type, equity_tax, debt_tax>>
batchVars == <<fetched, etf_idx, etf_data, top_etfs, selected_etf, st_errors>>
simVars   == <<monthly_returns, i, current_value, dividends, investment_values,
               final_value, total_invested, capital_gain>>
taxVars   == <<holding_years, tax_bucket, tax_rate,
               capital_gain_tax, dividend_tax, total_tax>>
finalVars == <<net_value, net_gain, annualized_base, annualized_exponent>>
vars == <<pc, inputVars, batchVars, simVars, taxVars, finalVars>>

----------------------------------------------------------------------------
(* Bounds of the model. *)

\* longest monthly return series handed to run_simulation
MaxLen == 4
\* number of instruments of etf_list the batch loop is run over
NumEtfs == 4

(* Program constants. *)

\* slider "Investment Tenure (Months)": 1 .. 120
MinTenure == 1
MaxTenure == 120
DefaultTenure == 60
\* holding_years >= 1 is 12 months
MonthsPerYear == 12
\* len(data) < 10: minimum data points of analyze_etf
MinDataPoints == 10
\* etf_df.head(5)
TopCount == 5
\* if i % 3 == 0: a dividend every third month
DividendEvery == 3
\* short-term statutory rates of an equity position
StcgIndividual == 15
StcgOther == 25
\* long-term rates of the two preset investor types
EquityLtcgIndividual == 10
DebtLtcgIndividual == 20
FlatPvtLtd == 25
\* short-term rates of a debt position, and its long-term holding in years
DebtStcgIndividual == 30
DebtLongTermYears == 3
\* holding_years >= 1: the long-term holding of an equity position, in years
EquityLongTermYears == 1
\* dividend distribution tax, in percent
DividendTaxPercent == 10
\* volatility limits of the risk appetite filter
LowVolatility == 15
HighVolatility == 25

----------------------------------------------------------------------------
(* Exact rational arithmetic standing for the floats of the source. *)

Abs(x) == IF x < 0 THEN -x ELSE x

RECURSIVE Gcd(_, _)
Gcd(a, b) == IF b = 0 THEN a ELSE Gcd(b, a % b)

\* n/d in lowest terms, d > 0
Rat(n, d) == LET g == Gcd(Abs(n), d) IN <<n \div g, d \div g>>

Zero == <<0, 1>>
Int2Rat(n) == <<n, 1>>

Lcm(a, b) == (a \div Gcd(a, b)) * b

RAdd(x, y) ==
    LET l == Lcm(x[2], y[2])
    IN  Rat(x[1] * (l \div x[2]) + y[1] * (l \div y[2]), l)

RNeg(x) == <<-x[1], x[2]>>
RSub(x, y) == RAdd(x, RNeg(y))

\* x * p / q for integers p and q > 0, cancelling before multiplying
RScale(x, p, q) ==
    LET g0 == Gcd(Abs(p), q)
        p1 == p \div g0
        q1 == q \div g0
        g1 == Gcd(Abs(x[1]), q1)
        g2 == Gcd(Abs(p1), x[2])
    IN  <<(x[1] \div g1) * (p1 \div g2), (x[2] \div g2) * (q1 \div g1)>>

\* x / y for y > 0
RDiv(x, y) == RScale(RScale(x, y[2], 1), 1, y[1])

RLt(x, y) ==
    LET l == Lcm(x[2], y[2])
    IN  x[1] * (l \div x[2]) < y[1] * (l \div y[2])
RLe(x, y) == x = y \/ RLt(x, y)
RGe(x, y) == RLe(y, x)

Min(a, b) == IF a < b THEN a ELSE b

----------------------------------------------------------------------------
(* run_simulation, lines 159-179. *)

\* the rational None of the script: a name not yet bound
Unset == <<0, 0>>

\* the 1 + left out: current_value *= monthly_return
GrowValueNoBase(cv, r) == RScale(cv, r, 100)

\* a sign slip: current_value *= (1 - monthly_return)
GrowValueMinus(cv, r) == RScale(cv, 100 - r, 100)

\* current_value *= (1 + monthly_return), monthly_return given in percent
GrowValue(cv, r) == RScale(cv, 100 + r, 100)

\* current_value += monthly_investment
Contribute(cv, sip) == RAdd(cv, sip)

\* if i % 3 == 0
DividendMonth(k) == k % DividendEvery = 0

\* dividend = current_value * 0.0025
Dividend(cv) == RScale(cv, 25, 10000)

\* range(min(months, len(monthly_returns)))
Periods(m, returns) == Min(m, Len(returns))

\* total_invested = initial + (monthly_investment * months)
TotalInvested(init, sip, m) == RAdd(init, RScale(sip, m, 1))

\* capital_gain = final_value - total_invested - dividends
CapitalGain(final, invested, divs) == RSub(RSub(final, invested), divs)

----------------------------------------------------------------------------
(* Sidebar, lines 49-69. *)

InvestorTypes == {"Individual", "PvtLtd", "Custom"}

\* "Individual" in investor_type
IsIndividual(inv) == inv = "Individual"

\* values the Custom slider of the equity rate (0.0 .. 30.0) is set to
CustomRates == {0, 30}

\* equity_tax = 10.0 if "Individual" in investor_type else 25.0
PresetEquityTax(inv) == IF IsIndividual(inv) THEN EquityLtcgIndividual ELSE FlatPvtLtd

\* debt_tax = 20.0 if "Individual" in investor_type else 25.0
PresetDebtTax(inv) == IF IsIndividual(inv) THEN DebtLtcgIndividual ELSE FlatPvtLtd

\* <<initial capital, monthly SIP amount>>: Rs 100000 (the minimum and the
\* default) with a SIP of Rs 0 (the default) or Rs 50000, and Rs 200000 with
\* a SIP of Rs 0 or Rs 100000 (the maximum)
CapitalPlans == {<<Int2Rat(1), Zero>>, <<Int2Rat(1), <<1, 2>>>>,
                 <<Int2Rat(2), Zero>>, <<Int2Rat(2), Int2Rat(1)>>}

\* values the Custom slider of the debt rate is set to (its default)
CustomDebtRates == {20}

\* tenures: the short ones, and those around one year of holding
TenureChoices ==
    {m \in (MinTenure .. MaxLen + 1) \cup
           {MonthsPerYear - 1, MonthsPerYear, MonthsPerYear + 1} : m <= MaxTenure}

\* monthly returns in percent: a total loss, a flat month, two gains
ReturnChoices == {-100, 0, 50, 100}

RECURSIVE SeqsOfLen(_, _)
SeqsOfLen(S, n) ==
    IF n = 0 THEN {<<>>}
    ELSE {Append(s, x) : s \in SeqsOfLen(S, n - 1), x \in S}

\* monthly_returns = monthly_prices.pct_change().dropna(): at least one month
ReturnSeries == UNION {SeqsOfLen(ReturnChoices, n) : n \in 1 .. MaxLen}

RiskAppetites == {"Low", "Medium", "High"}

\* initial, months, monthly_investment of the sidebar
InvestmentInputs ==
    /\ \E plan \in CapitalPlans :
          initial = plan[1] /\ monthly_investment = plan[2]
    /\ months \in TenureChoices

\* investor_type, equity_tax, debt_tax of the sidebar (lines 58-69)
TaxInputs ==
    /\ investor_type \in InvestorTypes
    /\ IF investor_type = "Custom"
       THEN equity_tax \in CustomRates /\ debt_tax \in CustomDebtRates
       ELSE /\ equity_tax = PresetEquityTax(investor_type)
            /\ debt_tax = PresetDebtTax(investor_type)

\* the sidebar left as it comes up, but for the risk appetite
DefaultInvestmentInputs ==
    /\ initial = Int2Rat(1)
    /\ monthly_investment = Zero
    /\ months = DefaultTenure
    /\ investor_type = "Individual"
    /\ equity_tax = PresetEquityTax("Individual")
    /\ debt_tax = PresetDebtTax("Individual")

----------------------------------------------------------------------------
(* Tax calculation, lines 187-203. *)

\* holding_years = months / 12
HoldingYears(m) == Rat(m, MonthsPerYear)

\* is_equity = True
is_equity == TRUE

\* a strict comparison: holding_years > 1
HoldingMoreThan(hy, years) == RLt(Int2Rat(years), hy)

\* holding_years >= 1, holding_years >= 3
HoldingAtLeast(hy, years) == RGe(hy, Int2Rat(years))

\* the branch of lines 190-199 that is taken
TaxBucket(eq, hy) ==
    IF eq
    THEN IF HoldingAtLeast(hy, EquityLongTermYears) THEN "LTCG" ELSE "STCG"
    ELSE IF HoldingAtLeast(hy, DebtLongTermYears) THEN "LTCG" ELSE "STCG"

\* tax_rate of lines 190-199
TaxRate(eq, hy, inv, eqTax, dbTax) ==
    IF eq
    THEN IF HoldingAtLeast(hy, EquityLongTermYears)
         THEN eqTax
         ELSE IF IsIndividual(inv) THEN StcgIndividual ELSE StcgOther
    ELSE IF HoldingAtLeast(hy, DebtLongTermYears)
         THEN dbTax
         ELSE IF IsIndividual(inv) THEN DebtStcgIndividual ELSE StcgOther

\* a slip of the percentage: capital_gain * (tax_rate / 10)
CapitalGainTaxPerTen(gain, rate) == RScale(gain, rate, 10)

\* capital_gain_tax = capital_gain * (tax_rate / 100)
CapitalGainTax(gain, rate) == RScale(gain, rate, 100)

\* dividend_tax = dividends * (10/100)
DividendTax(divs) == RScale(divs, DividendTaxPercent, 100)

(* Final returns, lines 206-208. *)

\* net_value = final_value - total_tax
NetValue(final, tax) == RSub(final, tax)

\* the exponent 12/months of annualized_return
AnnualizedExponent(m) == Rat(MonthsPerYear, m)

----------------------------------------------------------------------------
(* Batch analysis and recommendation, lines 72-138. *)

\* etf_list, by index
EtfList == 1 .. NumEtfs

\* annualised volatilities in percent, on both sides of the two limits
Volatilities == {LowVolatility - 1, LowVolatility, HighVolatility - 1, HighVolatility}
SharpeRatios == {1, 2}

\* what yf.download does for one symbol: it raises, or it returns a frame of
\* len rows, which may lack the 'Adj Close' column the metrics are read from
FetchOutcomes ==
    {[kind |-> "download_error", len |-> 0, vol |-> 0, sharpe |-> 0],
     [kind |-> "frame", len |-> MinDataPoints - 1, vol |-> 0, sharpe |-> 0],
     [kind |-> "no_adj_close", len |-> MinDataPoints, vol |-> 0, sharpe |-> 0]}
    \cup {[kind |-> "frame", len |-> MinDataPoints, vol |-> v, sharpe |-> sh] :
              v \in Volatilities, sh \in SharpeRatios}

None == [Symbol |-> 0, Volatility |-> 0, Sharpe |-> 0]

\* analyze_etf, lines 72-94
analyze_etf(etf_symbol, f) ==
    IF f.kind = "download_error" THEN None          \* except: return None
    ELSE IF f.len < MinDataPoints THEN None         \* line 78
    ELSE IF f.kind = "no_adj_close" THEN None       \* KeyError, except: return None
    ELSE [Symbol |-> etf_symbol, Volatility |-> f.vol, Sharpe |-> f.sharpe]

\* the masks of lines 112-117
RiskFilter(risk, row) ==
    IF risk = "Low" THEN row.Volatility < LowVolatility
    ELSE IF risk = "Medium"
         THEN row.Volatility >= LowVolatility /\ row.Volatility < HighVolatility
         ELSE row.Volatility >= HighVolatility

\* the orders sort_values('Sharpe Ratio', ascending=False) may give the rows
\* of df: every arrangement of them with the ratios descending
SortedBySharpe(df) ==
    LET n == Len(df)
        perms == {p \in [1 .. n -> 1 .. n] : \A a, b \in 1 .. n : a # b => p[a] # p[b]}
    IN  {[k \in 1 .. n |-> df[p[k]]] : p \in
            {q \in perms : \A a, b \in 1 .. n : a < b => df[q[a]].Sharpe >= df[q[b]].Sharpe}}

\* df.head(n)
Head5(df) == SubSeq(df, 1, Min(TopCount, Len(df)))

NoEtfData == [text |-> "No ETF data could be fetched. Please try again later.",
              symbol |-> 0, reason |-> "none"]

BatchInit ==
    /\ pc = "analyze"
    /\ risk_appetite \in RiskAppetites
    /\ DefaultInvestmentInputs
    /\ fetched = <<>>
    /\ etf_idx = 1
    /\ etf_data = <<>>
    /\ top_etfs = <<>>
    /\ selected_etf = 0
    /\ st_errors = {}
    /\ monthly_returns = <<>>
    /\ i = 0
    /\ current_value = Unset
    /\ dividends = Unset
    /\ investment_values = <<>>
    /\ final_value = Unset
    /\ total_invested = Unset
    /\ capital_gain = Unset
    /\ holding_years = Unset
    /\ tax_bucket = "none"
    /\ tax_rate = 0
    /\ capital_gain_tax = Unset
    /\ dividend_tax = Unset
    /\ total_tax = Unset
    /\ net_value = Unset
    /\ net_gain = Unset
    /\ annualized_base = Unset
    /\ annualized_exponent = Unset

\* one pass of the loop of lines 100-103
AnalyzeNext ==
    /\ pc = "analyze"
    /\ etf_idx <= NumEtfs
    /\ \E f \in FetchOutcomes :
          LET result == analyze_etf(etf_idx, f)
          IN  /\ fetched' = Append(fetched, f)
              /\ etf_data' = IF result # None THEN Append(etf_data, result)
                                              ELSE etf_data
    /\ etf_idx' = etf_idx + 1
    /\ UNCHANGED <<pc, inputVars, top_etfs, selected_etf, st_errors,
                   simVars, taxVars, finalVars>>

\* lines 105-107: if not etf_data: st.error(...); st.stop()
NoDataStop ==
    /\ pc = "analyze"
    /\ etf_idx > NumEtfs
    /\ etf_data = <<>>
    /\ st_errors' = st_errors \cup {NoEtfData}
    /\ pc' = "stopped"
    /\ UNCHANGED <<inputVars, fetched, etf_idx, etf_data, top_etfs, selected_etf,
                   simVars, taxVars, finalVars>>

\* lines 109-119: filter on the risk appetite, sort, head(5)
RecommendEtfs ==
    /\ pc = "analyze"
    /\ etf_idx > NumEtfs
    /\ etf_data # <<>>
    /\ \E sorted \in SortedBySharpe(
             SelectSeq(etf_data, LAMBDA row : RiskFilter(risk_appetite, row))) :
          top_etfs' = Head5(sorted)
    /\ pc' = "select"
    /\ UNCHANGED <<inputVars, fetched, etf_idx, etf_data, selected_etf, st_errors,
                   simVars, taxVars, finalVars>>

\* lines 123-138: the cards, the selectbox and selected_data
\* (st.columns(0) raises, and so would .iloc[0] of no rows)
SelectEtf ==
    /\ pc = "select"
    /\ IF top_etfs = <<>>
       THEN pc' = "crashed" /\ selected_etf' = selected_etf
       ELSE /\ \E k \in 1 .. Len(top_etfs) : selected_etf' = top_etfs[k].Symbol
            /\ pc' = "selected"
    /\ UNCHANGED <<inputVars, fetched, etf_idx, etf_data, top_etfs, st_errors,
                   simVars, taxVars, finalVars>>

BatchNext == AnalyzeNext \/ NoDataStop \/ RecommendEtfs \/ SelectEtf

SpecBatch == BatchInit /\ [][BatchNext]_vars

----------------------------------------------------------------------------
(* The simulation path: state when run_simulation is called (line 182). *)

\* a batch that went through: every instrument analysed, the first selected
BatchOver ==
    LET f == [kind |-> "frame", len |-> MinDataPoints,
              vol |-> LowVolatility - 1, sharpe |-> 1]
    IN  /\ risk_appetite = "Low"
        /\ fetched = [e \in EtfList |-> f]
        /\ etf_idx = NumEtfs + 1
        /\ etf_data = [e \in EtfList |-> analyze_etf(e, f)]
        /\ top_etfs = Head5([e \in EtfList |-> analyze_etf(e, f)])
        /\ selected_etf = 1
        /\ st_errors = {}

TaxUnset ==
    /\ holding_years = Unset
    /\ tax_bucket = "none"
    /\ tax_rate = 0
    /\ capital_gain_tax = Unset
    /\ dividend_tax = Unset
    /\ total_tax = Unset

FinalUnset ==
    /\ net_value = Unset
    /\ net_gain = Unset
    /\ annualized_base = Unset
    /\ annualized_exponent = Unset

Init ==
    /\ pc = "simulate"
    /\ InvestmentInputs
    /\ TaxInputs
    /\ BatchOver
    /\ monthly_returns \in ReturnSeries
    /\ i = 0
    /\ current_value = initial
    /\ dividends = Zero
    /\ investment_values = <<>>
    /\ final_value = Unset
    /\ total_invested = Unset
    /\ capital_gain = Unset
    /\ TaxUnset
    /\ FinalUnset

\* one pass of the loop of lines 164-174
SimulateMonth ==
    /\ pc = "simulate"
    /\ i < Periods(months, monthly_returns)
    /\ LET monthly_return == monthly_returns[i + 1]
           grown == Contribute(GrowValue(current_value, monthly_return),
                               monthly_investment)
           dividend == IF DividendMonth(i) THEN Dividend(grown) ELSE Zero
       IN  /\ investment_values' = Append(investment_values, grown)
           /\ dividends' = RAdd(dividends, dividend)
           /\ current_value' = RAdd(grown, dividend)
    /\ i' = i + 1
    /\ UNCHANGED <<pc, inputVars, batchVars, monthly_returns,
                   final_value, total_invested, capital_gain, taxVars, finalVars>>

\* lines 176-179, the loop being over
SimulationReturn ==
    /\ pc = "simulate"
    /\ i >= Periods(months, monthly_returns)
    /\ final_value' = current_value
    /\ total_invested' = TotalInvested(initial, monthly_investment, months)
    /\ capital_gain' = CapitalGain(current_value,
                          TotalInvested(initial, monthly_investment, months),
                          dividends)
    /\ pc' = "tax"
    /\ UNCHANGED <<inputVars, batchVars, monthly_returns, i, current_value,
                   dividends, investment_values, taxVars, finalVars>>

\* lines 187-203
TaxCalculation ==
    /\ pc = "tax"
    /\ holding_years' = HoldingYears(months)
    /\ tax_bucket' = TaxBucket(is_equity, HoldingYears(months))
    /\ LET rate == TaxRate(is_equity, HoldingYears(months), investor_type,
                           equity_tax, debt_tax)
           cgt == CapitalGainTax(capital_gain, rate)
           dvt == DividendTax(dividends)
       IN  /\ tax_rate' = rate
           /\ capital_gain_tax' = cgt
           /\ dividend_tax' = dvt
           /\ total_tax' = RAdd(cgt, dvt)
    /\ pc' = "final"
    /\ UNCHANGED <<inputVars, batchVars, simVars, finalVars>>

\* lines 206-208
FinalReturns ==
    /\ pc = "final"
    /\ net_value' = NetValue(final_value, total_tax)
    /\ net_gain' = RSub(NetValue(final_value, total_tax), total_invested)
    /\ annualized_base' = RDiv(NetValue(final_value, total_tax), total_invested)
    /\ annualized_exponent' = AnnualizedExponent(months)
    /\ pc' = "done"
    /\ UNCHANGED <<inputVars, batchVars, simVars, taxVars>>

Next == SimulateMonth \/ SimulationReturn \/ TaxCalculation \/ FinalReturns

Spec == Init /\ [][Next]_vars

----------------------------------------------------------------------------
(* Properties. *)

\* the number of months run_simulation goes through
EffectiveHorizon == Periods(months, monthly_returns)

Simulated == pc \in {"tax", "final", "done"}
Taxed == pc \in {"final", "done"}

Last(s) == s[Len(s)]

\* C1: the capital-gains tax is max(capital_gain, 0) * tax_rate: it is zero for
\* a negative gain, never negative, and total_tax is never below the dividend
\* tax because of a loss.
C1_CapitalGainsTaxNeverNegative ==
    Taxed =>
        /\ capital_gain_tax =
              (IF RLt(capital_gain, Zero) THEN Zero
               ELSE RScale(capital_gain, tax_rate, 100))
        /\ RGe(capital_gain_tax, Zero)
        /\ RGe(total_tax, dividend_tax)

\* C2: with a return series shorter than the tenure, exactly
\* N = len(monthly_returns) months are simulated and the holding duration of
\* the tax bucket and the exponent 12/horizon are those of N, not of months.
C2_EffectiveHorizonUsedDownstream ==
    pc = "done" =>
        /\ Len(investment_values) = EffectiveHorizon
        /\ holding_years = Rat(EffectiveHorizon, MonthsPerYear)
        /\ annualized_exponent = Rat(MonthsPerYear, EffectiveHorizon)

\* C3: capital_gain is the final value minus the capital contributed (initial
\* plus the contributions added in the months simulated) minus the dividends.
C3_GainNetOfActualContributions ==
    Simulated =>
        capital_gain =
            RSub(RSub(final_value,
                      RAdd(initial,
                           RScale(monthly_investment, Len(investment_values), 1))),
                 dividends)

\* C4: the long-term bucket is taken exactly when the tenure is at least 12
\* months, and then the rate is equity_tax; below 12 months the rate is 15 for
\* an Individual and 25 otherwise, whatever equity_tax and debt_tax are.
C4_TaxBucketBoundary ==
    Taxed =>
        /\ (tax_bucket = "LTCG") <=> (months >= MonthsPerYear)
        /\ tax_bucket \in {"LTCG", "STCG"}
        /\ tax_bucket = "LTCG" => tax_rate = equity_tax
        /\ tax_bucket = "STCG" =>
              tax_rate = (IF investor_type = "Individual" THEN 15 ELSE 25)

\* a tenure of 11 months of a Custom investor whose long-term rate is another
\* one than the short-term rate
C4_Witness ==
    /\ pc = "done"
    /\ months = MonthsPerYear - 1
    /\ investor_type = "Custom"
    /\ tax_bucket = "STCG"
    /\ tax_rate = 25
    /\ equity_tax # tax_rate

\* C5: with a total tax of zero, net_value is the last entry of
\* investment_values, also when the last month simulated pays a dividend.
C5_NetValueIsLastTrajectoryValue ==
    (pc = "done" /\ total_tax = Zero /\ Len(investment_values) >= 1) =>
        net_value = Last(investment_values)

\* C6 as stated: from a month of return -100% on, every entry of the
\* trajectory is 0, whatever the monthly contribution.
C6_ZeroAfterTotalLoss_AnyContribution ==
    \A k \in 1 .. Len(investment_values) :
        monthly_returns[k] = -100 =>
            \A j \in k .. Len(investment_values) : investment_values[j] = Zero

\* C6, amended: with a monthly contribution of 0, from a month of return
\* -100% on, every entry of the trajectory is 0, and so is the value carried
\* to the next month and returned as the final value.
C6_ZeroAfterTotalLoss ==
    monthly_investment = Zero =>
        \A k \in 1 .. Len(investment_values) :
            monthly_returns[k] = -100 =>
                /\ \A j \in k .. Len(investment_values) : investment_values[j] = Zero
                /\ current_value = Zero
                /\ Simulated => final_value = Zero

\* a total loss in the first month, gains of 100% after it, no recovery
C6_Witness ==
    /\ pc = "done"
    /\ monthly_investment = Zero
    /\ Len(investment_values) >= 3
    /\ monthly_returns[1] = -100
    /\ monthly_returns[2] = 100
    /\ monthly_returns[3] = 100
    /\ investment_values[3] = Zero

ConstantPositiveReturns ==
    \E r \in ReturnChoices :
        r > 0 /\ \A k \in 1 .. Len(monthly_returns) : monthly_returns[k] = r

\* C8: with the same return r > 0 every month and no contribution, the
\* trajectory is strictly increasing, in dividend months and in the others.
C8_StrictlyIncreasing ==
    (monthly_investment = Zero /\ ConstantPositiveReturns) =>
        \A j \in 1 .. Len(investment_values) - 1 :
            RLt(investment_values[j], investment_values[j + 1])

\* four months at 50%: the entry after the dividend of month 0, and entries
\* after months that pay none
C8_Witness ==
    /\ pc = "done"
    /\ monthly_investment = Zero
    /\ ConstantPositiveReturns
    /\ monthly_returns[1] = 50
    /\ Len(investment_values) >= 4
    /\ RLt(investment_values[1], investment_values[2])
    /\ RLt(Zero, dividends)

\* C10 as stated: net_value and the base net_value / total_invested of the
\* annualized return are never negative.
C10_NetValueNeverNegative ==
    pc = "done" => RGe(net_value, Zero) /\ RGe(annualized_base, Zero)

\* C10, amended: when the capital-gains rate selected is at least the 10% of
\* the dividend tax, net_value and the base of the annualized return are not
\* negative.
C10_NetValueNotNegativeFromTenPercent ==
    (pc = "done" /\ tax_rate >= DividendTaxPercent) =>
        RGe(net_value, Zero) /\ RGe(annualized_base, Zero)

\* dividends were paid and reinvested, then all was lost, at a rate of 10% or more
C10_Witness ==
    /\ pc = "done"
    /\ tax_rate >= DividendTaxPercent
    /\ final_value = Zero
    /\ RLt(Zero, dividends)
    /\ RLt(capital_gain, Zero)
    /\ RLt(Zero, net_value)

(* Properties of the batch. *)

\* why analyze_etf returned None for what was fetched
FailureReason(f) ==
    IF f.kind = "download_error" THEN "download error"
    ELSE IF f.len < MinDataPoints THEN "too few data points"
    ELSE "exception"

\* C7: an instrument whose analysis fails does not stop the loop, is left out
\* of etf_data, and its failure reason is recorded for that instrument.
C7_FailureIsolatedAndReported ==
    \A e \in 1 .. Len(fetched) :
        analyze_etf(e, fetched[e]) = None =>
            /\ pc = "analyze" => (etf_idx = Len(fetched) + 1)
            /\ pc # "analyze" => Len(fetched) = NumEtfs
            /\ \A k \in 1 .. Len(etf_data) : etf_data[k].Symbol # e
            /\ \E msg \in st_errors :
                  msg.symbol = e /\ msg.reason = FailureReason(fetched[e])

\* C9: when the script goes past the analysis with some etf_data, the risk
\* filter and head(5) leave a row, and the selected ETF is defined.
C9_RecommendationNeverEmpty ==
    (pc \in {"select", "selected", "crashed"} /\ etf_data # <<>>) =>
        /\ top_etfs # <<>>
        /\ pc # "crashed"
        /\ pc = "selected" => selected_etf \in EtfList

====
